---- MODULE Spec2Model ----
(***************************************************************************)
(* Model of the minefield API service (package v1): the CustomLeaderboard  *)
(* handler with its worker goroutines, closer goroutine and result heap,   *)
(* and the graph operations the service delegates to storage and to the    *)
(* graph package.                                                          *)
(***************************************************************************)
EXTENDS Integers, Sequences, FiniteSets, TLC

\* ------------------------------------------------------------------ bounds
\* largest concurrency budget the service is configured with
MaxK == 2
\* largest number of focus nodes whose evaluation fails in one call
MaxFailing == 1
\* largest number of nodes AddNode creates
MaxNodes == 3
\* largest number of edges SetDependency creates
MaxEdges == 4
\* largest number of AddNode and SetDependency handlers running at once
MaxClients == 2
\* largest number of edges the concurrent clients have had acknowledged or
\* have in progress
MaxAcked == 3
\* largest number of nodes plus edges in storage while other clients write
\* during a CustomLeaderboard call
MaxMixSize == 5
\* largest number of results in one LoadScorecard document
MaxResults == 2

VARIABLES
    \* storage: node records, cache records, dirty set (the "cached stack")
    stNodes, stCaches, stDirty,
    \* Service.concurrency, the request's script, the evaluations that fail
    K, script, failing,
    \* CustomLeaderboard: position of the handler and its locals
    hpc, uncachedNodes, keys, nodes, caches, cacheStack, idx,
    semaphore, wg, wstate, queryChan, errChan, closedChans, cpc, h, result,
    \* response of an earlier, completed call on the same storage and script
    prev,
    \* the response to the latest AddNode, SetDependency, Cache, Clear or Query
    resp,
    \* the graph.Cache pass in progress: position, nodes still to compute, and
    \* whether a SetDependency added an edge since the pass read the dirty set
    pass,
    \* the AddNode and SetDependency handlers in progress, one per client
    rpc,
    \* the edges (a, b) whose SetDependency(a, b) returned success
    acked,
    \* the ctx of the CustomLeaderboard call: "live" or "cancelled"
    ctx,
    \* scorecard ingest: the staged custom data, and the position, locals and
    \* progress calls of Scorecards
    ing

storageVars == <<stNodes, stCaches, stDirty>>
configVars == <<K, script, failing>>
lbVars == <<hpc, uncachedNodes, keys, nodes, caches, cacheStack, idx, semaphore, wg,
            wstate, queryChan, errChan, closedChans, cpc, h, result>>
graphVars == <<resp, pass, rpc, acked, ctx, ing>>
vars == <<storageVars, configVars, lbVars, prev, graphVars>>

\* ------------------------------------------------------------- node names
\* the names used by the scenarios, in ascending (lexicographic) order
NameOrder == <<"A", "B", "C", "D">>

NameRank(name) == CHOOSE i \in 1..Len(NameOrder) : NameOrder[i] = name

\* ------------------------------------------------------ transitive closure
\* nodes reachable from n by one or more edges of the relation next[_]
RECURSIVE ReachFrom(_, _, _)
ReachFrom(next, frontier, seen) ==
    LET new == UNION {next[m] : m \in frontier} \ seen
    IN  IF new = {} THEN seen ELSE ReachFrom(next, new, seen \cup new)

AllChildrenOf(st, n) == ReachFrom([m \in DOMAIN st |-> st[m].Children], {n}, {})

AllParentsOf(st, n) == ReachFrom([m \in DOMAIN st |-> st[m].Parents], {n}, {})

\* the cache record graph.Cache stores for node n on topology st
ClosureCache(st, n) ==
    [AllChildren |-> AllChildrenOf(st, n), AllParents |-> AllParentsOf(st, n)]

\* ---------------------------------------------------------------- storage
\* node records for names[i] at ID i with the edges (a, b): a depends on b
MakeNodes(names, edges) ==
    [i \in 1..Len(names) |->
        [ID |-> i, Name |-> names[i],
         Children |-> {e[2] : e \in {x \in edges : x[1] = i}},
         Parents |-> {e[1] : e \in {x \in edges : x[2] = i}}]]

\* storage holding a graph after Cache has completed
CachedStorage(names, edges) ==
    LET st == MakeNodes(names, edges)
    IN  [nodes |-> st,
         caches |-> [n \in DOMAIN st |-> ClosureCache(st, n)],
         dirty |-> {}]

\* storage holding a graph that was ingested and not cached yet
UncachedStorage(names, edges) ==
    LET st == MakeNodes(names, edges)
    IN  [nodes |-> st, caches |-> <<>>, dirty |-> DOMAIN st]

DiamondNames == <<"A", "B", "C", "D">>
DiamondEdges == {<<1, 2>>, <<1, 3>>, <<2, 4>>, <<3, 4>>}
Diamond == CachedStorage(DiamondNames, DiamondEdges)

\* the storage contents a CustomLeaderboard call is checked on
Scenarios ==
    { Diamond,
      CachedStorage(<<"A", "B", "C">>, {<<1, 2>>, <<2, 3>>}),
      CachedStorage(<<"B", "", "A">>, {<<1, 2>>, <<3, 2>>}),
      CachedStorage(<<"A", "B">>, {<<1, 2>>, <<2, 1>>}),
      CachedStorage(<<"">>, {}),
      UncachedStorage(<<"A", "B">>, {<<1, 2>>}) }

\* storage.ToBeCached
ToBeCached == stDirty

\* storage.GetAllKeys: every extant node ID, ascending
RECURSIVE SortedSeq(_)
SortedSeq(S) ==
    IF S = {} THEN <<>>
    ELSE LET m == CHOOSE x \in S : \A y \in S : x <= y
         IN  <<m>> \o SortedSeq(S \ {m})

GetAllKeys == SortedSeq(DOMAIN stNodes)

\* storage.GetNodes: batched, preserves the order of the keys
GetNodes(ids) == [i \in 1..Len(ids) |-> stNodes[ids[i]]]

\* storage.GetCaches: the cache records of the keys that have one
GetCaches(ids) ==
    [n \in {ids[i] : i \in 1..Len(ids)} \cap DOMAIN stCaches |-> stCaches[n]]

\* ------------------------------------------------------ script evaluation
\* a script is one atom: an operator and a node name; the name "focus" is the
\* token bound to the focus node of a leaderboard evaluation
FocusScripts ==
    { [op |-> "dependencies", name |-> "focus"],
      [op |-> "dependents", name |-> "focus"] }

\* the nodes of the list nds that carry the name
Resolve(nds, name) == {i \in 1..Len(nds) : nds[i].Name = name}

\* graph.ParseAndExecute(script, storage, defaultNodeName, nodes, caches, cached):
\* the output bitset, or an error
ParseAndExecute(scr, defaultNodeName, nds, cs, cached) ==
    LET name == IF scr.name = "focus" THEN defaultNodeName ELSE scr.name
        hits == Resolve(nds, name)
    IN  IF ~cached THEN [err |-> "NotCached", out |-> {}]
        ELSE IF name = "" \/ hits = {} THEN [err |-> "UnknownNode", out |-> {}]
        ELSE LET id == nds[CHOOSE i \in hits : TRUE].ID
             IN  IF id \in failing \/ id \notin DOMAIN cs
                 THEN [err |-> "EvalError", out |-> {}]
                 ELSE IF scr.op = "dependencies"
                      THEN [err |-> "", out |-> cs[id].AllChildren]
                      ELSE [err |-> "", out |-> cs[id].AllParents]

\* variant: the flag does not look at the dirty set
CachedFlagAlways(stack) == TRUE

\* len(cacheStack) == 0, the 'cached' argument of ParseAndExecute
CachedFlag(stack) == stack = {}

\* ------------------------------------------------------------- queryHeap
\* variant: the comparison of Less reversed
LessWrongWay(hp, i, j) == Cardinality(hp[i + 1].Output) > Cardinality(hp[j + 1].Output)

\* queryHeap.Less; heap positions are 0-based as in the code: hp[i + 1] is h[i]
Less(hp, i, j) == Cardinality(hp[i + 1].Output) < Cardinality(hp[j + 1].Output)

Swap(hp, i, j) == [hp EXCEPT ![i + 1] = hp[j + 1], ![j + 1] = hp[i + 1]]

\* container/heap up(h, j)
RECURSIVE Up(_, _)
Up(hp, j) ==
    LET i == IF j = 0 THEN 0 ELSE (j - 1) \div 2
    IN  IF i = j \/ ~Less(hp, j, i) THEN hp
        ELSE Up(Swap(hp, i, j), i)

\* container/heap down(h, i, n)
RECURSIVE Down(_, _, _)
Down(hp, i, n) ==
    LET j1 == 2 * i + 1
    IN  IF j1 >= n THEN hp
        ELSE LET j2 == j1 + 1
                 j == IF j2 < n /\ Less(hp, j2, j1) THEN j2 ELSE j1
             IN  IF ~Less(hp, j, i) THEN hp
                 ELSE Down(Swap(hp, i, j), j, n)

\* heap.Push(h, x): queryHeap.Push appends, then up(h, Len - 1)
HeapPush(hp, x) == Up(Append(hp, x), Len(hp))

\* heap.Pop(h): Swap(0, n), down(0, n), then queryHeap.Pop takes the last element
HeapPop(hp) ==
    LET n == Len(hp) - 1
        moved == Down(Swap(hp, 0, n), 0, n)
    IN  [x |-> moved[n + 1], rest |-> SubSeq(moved, 1, n)]

\* the loop that fills queries[] from its last index to its first with the pops
RECURSIVE PopAll(_, _)
PopAll(hp, filled) ==
    IF Len(hp) = 0 THEN filled
    ELSE LET p == HeapPop(hp)
         IN  PopAll(p.rest, <<p.x>> \o filled)

\* --------------------------------------------------------- handler state
NoResult == [ok |-> FALSE, err |-> "", queries |-> <<>>]

HandlerStart ==
    /\ hpc = "start"
    /\ uncachedNodes = {}
    /\ keys = <<>>
    /\ nodes = <<>>
    /\ caches = <<>>
    /\ cacheStack = {}
    /\ idx = 1
    /\ semaphore = 0
    /\ wg = 0
    /\ wstate = <<>>
    /\ queryChan = <<>>
    /\ errChan = <<>>
    /\ closedChans = {}
    /\ cpc = "idle"
    /\ h = <<>>
    /\ result = NoResult

NoResponse == [op |-> "", err |-> "", nodes |-> <<>>]

\* no Cache pass in progress
NoPass == [pc |-> "idle", todo |-> {}, wrote |-> FALSE]

NoNode == [ID |-> 0, Name |-> "", Children |-> {}, Parents |-> {}]

\* no custom data staged, Scorecards not called
NoIngest == [pc |-> "idle", staged |-> {}, lnodes |-> <<>>, todo |-> {}, cur |-> 0,
             entries |-> {}, count |-> 0, calls |-> <<>>, err |-> ""]

\* a client with no handler in progress
NoRpc == [op |-> "", pc |-> "idle", name |-> "", dependencyID |-> 0,
          fromNode |-> NoNode, toNode |-> NoNode]

GraphIdle ==
    /\ resp = NoResponse
    /\ pass = NoPass
    /\ rpc = [c \in 1..MaxClients |-> NoRpc]
    /\ acked = {}
    /\ ctx = "live"
    /\ ing = NoIngest

InitLB ==
    /\ GraphIdle
    /\ \E s \in Scenarios :
          /\ stNodes = s.nodes
          /\ stCaches = s.caches
          /\ stDirty = s.dirty
    /\ K \in 0..MaxK
    /\ script \in FocusScripts
    /\ failing \in {F \in SUBSET (DOMAIN stNodes) : Cardinality(F) <= MaxFailing}
    /\ HandlerStart
    /\ prev = NoResult

\* ------------------------------------------------- CustomLeaderboard handler
\* variant: the not-cached check left out
NotCachedGateOff(uncached) == FALSE

\* len(uncachedNodes) != 0
NotCachedGate(uncached) == uncached # {}

\* s.storage.ToBeCached() and the not-cached check
HCheck ==
    /\ hpc = "start"
    /\ uncachedNodes' = ToBeCached
    /\ IF NotCachedGate(ToBeCached)
       THEN /\ hpc' = "done"
            /\ result' = [ok |-> FALSE, err |-> "NotCached", queries |-> <<>>]
       ELSE /\ hpc' = "keys"
            /\ result' = result
    /\ UNCHANGED <<keys, nodes, caches, cacheStack, idx, semaphore, wg, wstate,
                   queryChan, errChan, closedChans, cpc, h>>
    /\ UNCHANGED <<storageVars, configVars, prev, graphVars>>

\* s.storage.GetAllKeys()
HKeys ==
    /\ hpc = "keys"
    /\ keys' = GetAllKeys
    /\ hpc' = "nodes"
    /\ UNCHANGED <<uncachedNodes, nodes, caches, cacheStack, idx, semaphore, wg,
                   wstate, queryChan, errChan, closedChans, cpc, h, result>>
    /\ UNCHANGED <<storageVars, configVars, prev, graphVars>>

\* s.storage.GetNodes(keys)
HNodes ==
    /\ hpc = "nodes"
    /\ nodes' = GetNodes(keys)
    /\ hpc' = "caches"
    /\ UNCHANGED <<uncachedNodes, keys, caches, cacheStack, idx, semaphore, wg,
                   wstate, queryChan, errChan, closedChans, cpc, h, result>>
    /\ UNCHANGED <<storageVars, configVars, prev, graphVars>>

\* s.storage.GetCaches(keys)
HCaches ==
    /\ hpc = "caches"
    /\ caches' = GetCaches(keys)
    /\ hpc' = "stack"
    /\ UNCHANGED <<uncachedNodes, keys, nodes, cacheStack, idx, semaphore, wg,
                   wstate, queryChan, errChan, closedChans, cpc, h, result>>
    /\ UNCHANGED <<storageVars, configVars, prev, graphVars>>

\* the second s.storage.ToBeCached(), then the heap, semaphore, channels and
\* WaitGroup are created
HStack ==
    /\ hpc = "stack"
    /\ cacheStack' = ToBeCached
    /\ wstate' = [i \in 1..Len(nodes) |-> "idle"]
    /\ hpc' = "loop"
    /\ UNCHANGED <<uncachedNodes, keys, nodes, caches, idx, semaphore, wg,
                   queryChan, errChan, closedChans, cpc, h, result>>
    /\ UNCHANGED <<storageVars, configVars, prev, graphVars>>

\* variant: a buffer with one slot more than s.concurrency
CanAcquireOffByOne == semaphore < K + 1

\* semaphore <- struct{}{} can proceed: the buffer of capacity s.concurrency has room
CanAcquire == semaphore < K

\* loop body for a node with an empty name: continue
HSkip ==
    /\ hpc = "loop"
    /\ idx <= Len(nodes)
    /\ nodes[idx].Name = ""
    /\ idx' = idx + 1
    /\ UNCHANGED <<hpc, uncachedNodes, keys, nodes, caches, cacheStack, semaphore,
                   wg, wstate, queryChan, errChan, closedChans, cpc, h, result>>
    /\ UNCHANGED <<storageVars, configVars, prev, graphVars>>

\* loop body for a named node: wg.Add(1), acquire a token, start the goroutine
HSpawn ==
    /\ hpc = "loop"
    /\ idx <= Len(nodes)
    /\ nodes[idx].Name # ""
    /\ CanAcquire
    /\ wg' = wg + 1
    /\ semaphore' = semaphore + 1
    /\ wstate' = [wstate EXCEPT ![idx] = "running"]
    /\ idx' = idx + 1
    /\ UNCHANGED <<hpc, uncachedNodes, keys, nodes, caches, cacheStack, queryChan,
                   errChan, closedChans, cpc, h, result>>
    /\ UNCHANGED <<storageVars, configVars, prev, graphVars>>

\* the loop is over: the closer goroutine is started
HLoopEnd ==
    /\ hpc = "loop"
    /\ idx > Len(nodes)
    /\ cpc' = "wait"
    /\ hpc' = "select"
    /\ UNCHANGED <<uncachedNodes, keys, nodes, caches, cacheStack, idx, semaphore,
                   wg, wstate, queryChan, errChan, closedChans, h, result>>
    /\ UNCHANGED <<storageVars, configVars, prev, graphVars>>

\* variant: an evaluation that reads the caches from storage when it runs
EvalCachesLive == GetCaches(keys)

\* the caches the goroutine's closure captures: the list loaded by GetCaches
EvalCaches == caches

\* worker goroutine: ParseAndExecute, then the send on errChan or queryChan
WEval(i) ==
    /\ i \in DOMAIN wstate
    /\ wstate[i] = "running"
    /\ LET execute == ParseAndExecute(script, nodes[i].Name, nodes, EvalCaches, CachedFlag(cacheStack))
       IN  IF execute.err # ""
           THEN /\ errChan' = Append(errChan, execute.err)
                /\ queryChan' = queryChan
           ELSE /\ queryChan' = Append(queryChan, [Node |-> nodes[i], Output |-> execute.out])
                /\ errChan' = errChan
    /\ wstate' = [wstate EXCEPT ![i] = "sent"]
    /\ UNCHANGED <<hpc, uncachedNodes, keys, nodes, caches, cacheStack, idx,
                   semaphore, wg, closedChans, cpc, h, result>>
    /\ UNCHANGED <<storageVars, configVars, prev, graphVars>>

\* worker goroutine, deferred: <-semaphore releases the token
WRelease(i) ==
    /\ i \in DOMAIN wstate
    /\ wstate[i] = "sent"
    /\ semaphore > 0
    /\ semaphore' = semaphore - 1
    /\ wstate' = [wstate EXCEPT ![i] = "released"]
    /\ UNCHANGED <<hpc, uncachedNodes, keys, nodes, caches, cacheStack, idx, wg,
                   queryChan, errChan, closedChans, cpc, h, result>>
    /\ UNCHANGED <<storageVars, configVars, prev, graphVars>>

\* worker goroutine, deferred: wg.Done()
WDone(i) ==
    /\ i \in DOMAIN wstate
    /\ wstate[i] = "released"
    /\ wg' = wg - 1
    /\ wstate' = [wstate EXCEPT ![i] = "done"]
    /\ UNCHANGED <<hpc, uncachedNodes, keys, nodes, caches, cacheStack, idx,
                   semaphore, queryChan, errChan, closedChans, cpc, h, result>>
    /\ UNCHANGED <<storageVars, configVars, prev, graphVars>>

\* variant: a closer that does not wait for the workers
CWaitNoWait ==
    /\ cpc = "wait"
    /\ cpc' = "closeQuery"
    /\ UNCHANGED <<hpc, uncachedNodes, keys, nodes, caches, cacheStack, idx,
                   semaphore, wg, wstate, queryChan, errChan, closedChans, h, result>>
    /\ UNCHANGED <<storageVars, configVars, prev, graphVars>>

\* closer goroutine: wg.Wait() returns
CWait ==
    /\ cpc = "wait"
    /\ wg = 0
    /\ cpc' = "closeQuery"
    /\ UNCHANGED <<hpc, uncachedNodes, keys, nodes, caches, cacheStack, idx,
                   semaphore, wg, wstate, queryChan, errChan, closedChans, h, result>>
    /\ UNCHANGED <<storageVars, configVars, prev, graphVars>>

\* closer goroutine: close(queryChan); close(errChan); close(semaphore)
CClose ==
    /\ cpc \in {"closeQuery", "closeErr", "closeSem"}
    /\ closedChans' = closedChans \cup
          {IF cpc = "closeQuery" THEN "queryChan"
           ELSE IF cpc = "closeErr" THEN "errChan" ELSE "semaphore"}
    /\ cpc' = IF cpc = "closeQuery" THEN "closeErr"
              ELSE IF cpc = "closeErr" THEN "closeSem" ELSE "done"
    /\ UNCHANGED <<hpc, uncachedNodes, keys, nodes, caches, cacheStack, idx,
                   semaphore, wg, wstate, queryChan, errChan, h, result>>
    /\ UNCHANGED <<storageVars, configVars, prev, graphVars>>

\* the single select on errChan with a default case
HSelect ==
    /\ hpc = "select"
    /\ IF errChan # <<>>
       THEN /\ errChan' = Tail(errChan)
            /\ hpc' = "done"
            /\ result' = [ok |-> FALSE, err |-> Head(errChan), queries |-> <<>>]
       ELSE /\ errChan' = errChan
            /\ hpc' = "drain"
            /\ result' = result
    /\ UNCHANGED <<uncachedNodes, keys, nodes, caches, cacheStack, idx, semaphore,
                   wg, wstate, queryChan, closedChans, cpc, h>>
    /\ UNCHANGED <<storageVars, configVars, prev, graphVars>>

\* for q := range queryChan { heap.Push(h, q) }: one received value
HDrain ==
    /\ hpc = "drain"
    /\ queryChan # <<>>
    /\ h' = HeapPush(h, Head(queryChan))
    /\ queryChan' = Tail(queryChan)
    /\ UNCHANGED <<hpc, uncachedNodes, keys, nodes, caches, cacheStack, idx,
                   semaphore, wg, wstate, errChan, closedChans, cpc, result>>
    /\ UNCHANGED <<storageVars, configVars, prev, graphVars>>

\* the range loop ends on the closed, drained queryChan; the heap is popped
\* into queries[] and the response is returned
HRespond ==
    /\ hpc = "drain"
    /\ queryChan = <<>>
    /\ "queryChan" \in closedChans
    /\ result' = [ok |-> TRUE, err |-> "", queries |-> PopAll(h, <<>>)]
    /\ h' = <<>>
    /\ hpc' = "done"
    /\ UNCHANGED <<uncachedNodes, keys, nodes, caches, cacheStack, idx, semaphore,
                   wg, wstate, queryChan, errChan, closedChans, cpc>>
    /\ UNCHANGED <<storageVars, configVars, prev, graphVars>>

\* every goroutine of the call has ended
CallOver ==
    /\ hpc = "done"
    /\ cpc \in {"idle", "done"}
    /\ \A i \in DOMAIN wstate : wstate[i] \in {"idle", "done"}

\* the same request is issued once more on the unchanged storage
HAgain ==
    /\ CallOver
    /\ cpc = "done"
    /\ prev = NoResult
    /\ prev' = result
    /\ hpc' = "start"
    /\ uncachedNodes' = {}
    /\ keys' = <<>>
    /\ nodes' = <<>>
    /\ caches' = <<>>
    /\ cacheStack' = {}
    /\ idx' = 1
    /\ semaphore' = 0
    /\ wg' = 0
    /\ wstate' = <<>>
    /\ queryChan' = <<>>
    /\ errChan' = <<>>
    /\ closedChans' = {}
    /\ cpc' = "idle"
    /\ h' = <<>>
    /\ result' = NoResult
    /\ UNCHANGED <<storageVars, configVars, graphVars>>

NextLB ==
    \/ HCheck
    \/ HKeys
    \/ HNodes
    \/ HCaches
    \/ HStack
    \/ HSkip
    \/ HSpawn
    \/ HLoopEnd
    \/ \E i \in DOMAIN wstate : WEval(i)
    \/ \E i \in DOMAIN wstate : WRelease(i)
    \/ \E i \in DOMAIN wstate : WDone(i)
    \/ CWait
    \/ CClose
    \/ HSelect
    \/ HDrain
    \/ HRespond
    \/ HAgain

SpecLB == InitLB /\ [][NextLB]_vars

\* the Go scheduler runs every goroutine that can take a step
SpecLBFair == SpecLB /\ WF_vars(NextLB)

\* ------------------------------------------------ cancellation of the call
\* the evaluations of the call that have not returned yet
Outstanding == {i \in DOMAIN wstate : wstate[i] = "running"}

\* the caller cancels ctx before the handler has returned, while evaluations
\* are outstanding; nothing in the handler or its goroutines reads ctx
Cancel ==
    /\ ctx = "live"
    /\ hpc # "done"
    /\ Outstanding # {}
    /\ ctx' = "cancelled"
    /\ UNCHANGED <<storageVars, configVars, lbVars, prev, resp, pass, rpc, acked, ing>>

\* one step of the handler, a worker or the closer of a single call
CallStep ==
    \/ HCheck
    \/ HKeys
    \/ HNodes
    \/ HCaches
    \/ HStack
    \/ HSkip
    \/ HSpawn
    \/ HLoopEnd
    \/ \E i \in DOMAIN wstate : WEval(i)
    \/ \E i \in DOMAIN wstate : WRelease(i)
    \/ \E i \in DOMAIN wstate : WDone(i)
    \/ CWait
    \/ CClose
    \/ HSelect
    \/ HDrain
    \/ HRespond

NextCancel ==
    \/ CallStep
    \/ Cancel

SpecCancel == InitLB /\ [][NextCancel]_vars

\* ----------------------------------------------------------- graph writes
\* the names AddNode is called with: the names in use and the first unused one
NamePool ==
    {NameOrder[i] : i \in 1..MaxNodes} \cap
    {NameOrder[i] : i \in 1..(Cardinality(DOMAIN stNodes) + 1) \cap DOMAIN NameOrder}

\* storage.NameToID resolves the name
NameResolves(name) == \E n \in DOMAIN stNodes : stNodes[n].Name = name

Edges == {e \in (DOMAIN stNodes) \X (DOMAIN stNodes) : e[2] \in stNodes[e[1]].Children}

Response(op, err) == [op |-> op, err |-> err, nodes |-> <<>>]

\* Service.AddNode -> graph.AddNode: AlreadyExists if the name resolves; else
\* SaveNode assigns the next ID, persists the node and marks it dirty
AddNode(name) ==
    /\ IF NameResolves(name)
       THEN /\ resp' = Response("AddNode", "AlreadyExists")
            /\ UNCHANGED storageVars
       ELSE /\ Cardinality(DOMAIN stNodes) < MaxNodes
            /\ LET id == Cardinality(DOMAIN stNodes) + 1
               IN  /\ stNodes' = [n \in DOMAIN stNodes \cup {id} |->
                                    IF n = id
                                    THEN [ID |-> id, Name |-> name,
                                          Children |-> {}, Parents |-> {}]
                                    ELSE stNodes[n]]
                   /\ stDirty' = stDirty \cup {id}
            /\ resp' = Response("AddNode", "")
            /\ UNCHANGED stCaches
    /\ UNCHANGED <<configVars, lbVars, prev>>
    /\ UNCHANGED <<pass, rpc, acked, ctx, ing>>

\* the nodes SetDependency marks dirty with AddNodeToCachedStack
MarkedDirty(a, b) == {a, b}

\* variant: an edge that exists already marks its endpoints dirty again
RemarkedDirtyBoth(a, b) == {a, b}

\* the nodes SetDependency marks dirty when the edge exists already
RemarkedDirty(a, b) == {}

\* variant: no self-loop check
IsSelfLoopNever(a, b) == FALSE

\* Node.SetDependency: the node is its own neighbour
IsSelfLoop(a, b) == a = b

\* Service.SetDependency -> Node.SetDependency: adds b to a.Children and a to
\* b.Parents, persists both and marks both endpoints dirty; a self loop fails
\* and an edge that exists already is left as it is
SetDependency(a, b) ==
    /\ a \in DOMAIN stNodes
    /\ b \in DOMAIN stNodes
    /\ IF IsSelfLoop(a, b)
       THEN /\ resp' = Response("SetDependency", "SelfLoop")
            /\ UNCHANGED storageVars
       ELSE IF b \in stNodes[a].Children
       THEN /\ resp' = Response("SetDependency", "")
            /\ stDirty' = stDirty \cup RemarkedDirty(a, b)
            /\ UNCHANGED <<stNodes, stCaches>>
       ELSE /\ Cardinality(Edges) < MaxEdges
            /\ stNodes' = [stNodes EXCEPT ![a].Children = @ \cup {b},
                                          ![b].Parents = @ \cup {a}]
            /\ stDirty' = stDirty \cup MarkedDirty(a, b)
            /\ resp' = Response("SetDependency", "")
            /\ UNCHANGED stCaches
    /\ pass' = [pass EXCEPT !.wrote = @ \/ (pass.pc = "pass" /\ Edges' # Edges)]
    /\ UNCHANGED <<configVars, lbVars, prev>>
    /\ UNCHANGED <<rpc, acked, ctx, ing>>

\* Service.Clear -> storage.RemoveAllCaches: drops every cache entry and marks
\* every node dirty
Clear ==
    /\ stCaches' = <<>>
    /\ stDirty' = DOMAIN stNodes
    /\ resp' = Response("Clear", "")
    /\ UNCHANGED stNodes
    /\ UNCHANGED <<configVars, lbVars, prev>>
    /\ UNCHANGED <<pass, rpc, acked, ctx, ing>>

\* ------------------------------------------------------------ graph.Cache
\* variant: a pass that leaves the last dirty node out
PassNodesButLast(dirtySet) ==
    dirtySet \ {CHOOSE d \in dirtySet : \A e \in dirtySet : e <= d}

\* variant: a pass that computes the dirty nodes alone
PassNodesDirtyOnly(dirtySet) == dirtySet

\* the participants of the strongly-connected component of n, n included
SccOf(st, n) == {n} \cup (AllChildrenOf(st, n) \cap AllParentsOf(st, n))

\* the nodes a pass computes and saves: the dirty nodes read in step 1, each
\* with the participants of its strongly-connected component, to which the
\* traversal propagates the complete set
PassNodes(dirtySet) == UNION {SccOf(stNodes, d) : d \in dirtySet}

\* the cache records after SaveCache of the closures of the nodes D
SavedCaches(D) ==
    [n \in DOMAIN stCaches \cup D |->
        IF n \in D THEN ClosureCache(stNodes, n) ELSE stCaches[n]]

\* Service.Cache -> graph.Cache on a quiescent graph: read the dirty set, return
\* if it is empty; for each node of the pass compute both closures, SaveCache
\* and RemoveNodeFromCachedStack
Cache ==
    /\ LET D == IF ToBeCached = {} THEN {} ELSE PassNodes(ToBeCached)
       IN  /\ stCaches' = SavedCaches(D)
           /\ stDirty' = stDirty \ D
    /\ resp' = Response("Cache", "")
    /\ UNCHANGED stNodes
    /\ UNCHANGED <<configVars, lbVars, prev>>
    /\ UNCHANGED <<pass, rpc, acked, ctx, ing>>

\* ------------------------------------- graph.Cache, one node of the pass a step
\* step 1: read the dirty set; return if it is empty
CacheBegin ==
    /\ pass.pc = "idle"
    /\ IF ToBeCached = {}
       THEN /\ pass' = NoPass
            /\ resp' = Response("Cache", "")
       ELSE /\ pass' = [pc |-> "pass", todo |-> ToBeCached, wrote |-> FALSE]
            /\ UNCHANGED resp
    /\ UNCHANGED <<storageVars, configVars, lbVars, prev, rpc, acked, ctx, ing>>

\* steps 2-4 for a node d whose cache the pass has not produced yet: compute
\* the closures on the topology as it is now, SaveCache and
\* RemoveNodeFromCachedStack, for d and the participants of its component
CacheNode(d) ==
    /\ pass.pc = "pass"
    /\ d \in pass.todo
    /\ LET D == PassNodes({d})
       IN  /\ stCaches' = SavedCaches(D)
           /\ stDirty' = stDirty \ D
           /\ pass' = [pass EXCEPT !.todo = @ \ D]
    /\ UNCHANGED <<stNodes, configVars, lbVars, prev, resp, rpc, acked, ctx, ing>>

\* the pass has produced the cache of every node it read: Cache returns
CacheEnd ==
    /\ pass.pc = "pass"
    /\ pass.todo = {}
    /\ pass' = [pass EXCEPT !.pc = "idle"]
    /\ resp' = Response("Cache", "")
    /\ UNCHANGED <<storageVars, configVars, lbVars, prev, rpc, acked, ctx, ing>>

\* ---------------------------------------------------------- Service.Query
\* the scripts Query is called with
QueryScripts ==
    { [op |-> "dependencies", name |-> "A"],
      [op |-> "dependents", name |-> "C"] }

\* Service.Query: GetAllKeys, GetNodes, GetCaches, ToBeCached, ParseAndExecute
\* with no focus node, then GetNodes of the output
Query(scr) ==
    /\ LET ks == GetAllKeys
           nds == GetNodes(ks)
           cs == GetCaches(ks)
           stack == ToBeCached
           execute == ParseAndExecute(scr, "", nds, cs, CachedFlag(stack))
       IN  resp' = IF execute.err # ""
                   THEN Response("Query", execute.err)
                   ELSE [op |-> "Query", err |-> "",
                         nodes |-> GetNodes(SortedSeq(execute.out))]
    /\ UNCHANGED storageVars
    /\ UNCHANGED <<configVars, lbVars, prev>>
    /\ UNCHANGED <<pass, rpc, acked, ctx, ing>>

\* Service.CustomLeaderboard as far as its check of ToBeCached: the call is
\* refused as not cached, or goes on to load the graph and fan out (SpecLB)
LeaderboardCheck ==
    /\ resp' = IF NotCachedGate(ToBeCached)
               THEN Response("CustomLeaderboard", "NotCached")
               ELSE Response("CustomLeaderboard", "")
    /\ UNCHANGED storageVars
    /\ UNCHANGED <<configVars, lbVars, prev>>
    /\ UNCHANGED <<pass, rpc, acked, ctx, ing>>

Init ==
    /\ stNodes = <<>>
    /\ stCaches = <<>>
    /\ stDirty = {}
    /\ K = 1
    /\ script = [op |-> "dependencies", name |-> "A"]
    /\ failing = {}
    /\ HandlerStart
    /\ prev = NoResult
    /\ GraphIdle

Next ==
    \/ \E name \in NamePool : AddNode(name)
    \/ \E a, b \in DOMAIN stNodes : SetDependency(a, b)
    \/ Clear
    \/ Cache
    \/ \E scr \in QueryScripts : Query(scr)
    \/ LeaderboardCheck

Spec == Init /\ [][Next]_vars

\* ------------------------------------- AddNode and SetDependency, storage call
\* ------------------------------------- by storage call, on concurrent clients
Idle(c) == rpc[c].pc = "idle"

InProgress(op) == {c \in DOMAIN rpc : rpc[c].op = op}

\* graph.AddNode, first storage call: NameToID(name); AlreadyExists if it
\* resolves
ANResolve(c, name) ==
    /\ Idle(c)
    /\ Cardinality(DOMAIN stNodes) + Cardinality(InProgress("AddNode")) < MaxNodes
    /\ IF NameResolves(name)
       THEN /\ resp' = Response("AddNode", "AlreadyExists")
            /\ UNCHANGED rpc
       ELSE /\ rpc' = [rpc EXCEPT ![c] = [NoRpc EXCEPT !.op = "AddNode",
                                                       !.pc = "save",
                                                       !.name = name]]
            /\ UNCHANGED resp
    /\ UNCHANGED <<storageVars, configVars, lbVars, prev, pass, acked, ctx, ing>>

\* graph.AddNode, second storage call: SaveNode assigns the next ID, persists
\* the node and marks it dirty
ANSave(c) ==
    /\ rpc[c].op = "AddNode"
    /\ rpc[c].pc = "save"
    /\ LET id == Cardinality(DOMAIN stNodes) + 1
       IN  /\ stNodes' = [n \in DOMAIN stNodes \cup {id} |->
                            IF n = id
                            THEN [ID |-> id, Name |-> rpc[c].name,
                                  Children |-> {}, Parents |-> {}]
                            ELSE stNodes[n]]
           /\ stDirty' = stDirty \cup {id}
    /\ resp' = Response("AddNode", "")
    /\ rpc' = [rpc EXCEPT ![c] = NoRpc]
    /\ UNCHANGED <<stCaches, configVars, lbVars, prev, pass, acked, ctx, ing>>

\* Service.SetDependency: fromNode, err := s.storage.GetNode(req.NodeId)
SDGetFrom(c, a, b) ==
    /\ Idle(c)
    /\ a \in DOMAIN stNodes
    /\ b \in DOMAIN stNodes
    /\ Cardinality(acked) + Cardinality(InProgress("SetDependency")) < MaxAcked
    /\ rpc' = [rpc EXCEPT ![c] = [NoRpc EXCEPT !.op = "SetDependency",
                                                !.pc = "getTo",
                                                !.dependencyID = b,
                                                !.fromNode = stNodes[a]]]
    /\ UNCHANGED <<storageVars, configVars, lbVars, prev, resp, pass, acked, ctx, ing>>

\* Service.SetDependency: toNode, err := s.storage.GetNode(req.DependencyID)
SDGetTo(c) ==
    /\ rpc[c].op = "SetDependency"
    /\ rpc[c].pc = "getTo"
    /\ rpc' = [rpc EXCEPT ![c].pc = "set",
                          ![c].toNode = stNodes[rpc[c].dependencyID]]
    /\ UNCHANGED <<storageVars, configVars, lbVars, prev, resp, pass, acked, ctx, ing>>

\* Service.SetDependency: fromNode.SetDependency(s.storage, toNode) on the two
\* records read before: SelfLoop, or nothing to do, or add the edge to both
\* records, SaveNode both and mark both endpoints dirty
SDSet(c) ==
    /\ rpc[c].op = "SetDependency"
    /\ rpc[c].pc = "set"
    /\ LET f == rpc[c].fromNode
           t == rpc[c].toNode
       IN  IF IsSelfLoop(f.ID, t.ID)
           THEN /\ resp' = Response("SetDependency", "SelfLoop")
                /\ UNCHANGED <<storageVars, acked>>
           ELSE IF t.ID \in f.Children
           THEN /\ resp' = Response("SetDependency", "")
                /\ acked' = acked \cup {<<f.ID, t.ID>>}
                /\ stDirty' = stDirty \cup RemarkedDirty(f.ID, t.ID)
                /\ UNCHANGED <<stNodes, stCaches>>
           ELSE /\ stNodes' = [stNodes EXCEPT
                                 ![f.ID] = [f EXCEPT !.Children = @ \cup {t.ID}],
                                 ![t.ID] = [t EXCEPT !.Parents = @ \cup {f.ID}]]
                /\ stDirty' = stDirty \cup MarkedDirty(f.ID, t.ID)
                /\ resp' = Response("SetDependency", "")
                /\ acked' = acked \cup {<<f.ID, t.ID>>}
                /\ UNCHANGED stCaches
    /\ rpc' = [rpc EXCEPT ![c] = NoRpc]
    /\ UNCHANGED <<configVars, lbVars, prev, pass, ctx, ing>>

\* AddNode and SetDependency handlers of several clients interleaved
NextConc ==
    \/ \E c \in DOMAIN rpc, name \in NamePool : ANResolve(c, name)
    \/ \E c \in DOMAIN rpc : ANSave(c)
    \/ \E c \in DOMAIN rpc, a, b \in DOMAIN stNodes : SDGetFrom(c, a, b)
    \/ \E c \in DOMAIN rpc : SDGetTo(c)
    \/ \E c \in DOMAIN rpc : SDSet(c)

SpecConc == Init /\ [][NextConc]_vars

\* --------------------- CustomLeaderboard while other clients write and cache
\* the storage contents the call starts on: a cached graph
MixScenarios ==
    { CachedStorage(<<"A", "B">>, {<<1, 2>>}),
      CachedStorage(<<"A", "">>, {<<1, 2>>}) }

InitMix ==
    /\ GraphIdle
    /\ \E s \in MixScenarios :
          /\ stNodes = s.nodes
          /\ stCaches = s.caches
          /\ stDirty = s.dirty
    /\ K \in 1..MaxK
    /\ script \in FocusScripts
    /\ failing = {}
    /\ HandlerStart
    /\ prev = NoResult

\* the call has entered the handler and has not returned
CallInProgress == hpc \notin {"start", "done"}

\* the other clients may still write while the call is in progress
WriteRoom ==
    /\ CallInProgress
    /\ Cardinality(DOMAIN stNodes) + Cardinality(Edges) < MaxMixSize

\* one call of CustomLeaderboard; AddNode, SetDependency and Cache calls of
\* other clients complete while it is in progress
NextMix ==
    \/ CallStep
    \/ WriteRoom /\ \E name \in NamePool : AddNode(name)
    \/ WriteRoom /\ \E a, b \in DOMAIN stNodes : SetDependency(a, b)
    \/ CallInProgress /\ Cache

SpecMix == InitMix /\ [][NextMix]_vars

\* writes interleaved with a Cache pass
NextPass ==
    \/ \E name \in NamePool : AddNode(name)
    \/ \E a, b \in DOMAIN stNodes : SetDependency(a, b)
    \/ CacheBegin
    \/ \E d \in DOMAIN stNodes : CacheNode(d)
    \/ CacheEnd

SpecPass == Init /\ [][NextPass]_vars

\* ------------------------------------------------------- scorecard ingest
LibraryType == "library"
ScorecardType == "scorecard"

\* the package URLs and repository names the ingest is run on
Purls == {"pkg:a@1", "pkg:a@2", "pkg:b@1", "pkg:"}
Repos == {"r1", "r2"}

\* strings.HasPrefix(name, pkg)
HasPkgPrefix(name) == name \in Purls

\* PURLToPackage: the package with its name and version, or an error
PURLToPackage(name) ==
    CASE name = "pkg:a@1" -> [ok |-> TRUE, Name |-> "a", Version |-> "1"]
      [] name = "pkg:a@2" -> [ok |-> TRUE, Name |-> "a", Version |-> "2"]
      [] name = "pkg:b@1" -> [ok |-> TRUE, Name |-> "b", Version |-> "1"]
      [] OTHER -> [ok |-> FALSE, Name |-> "", Version |-> ""]

\* getScorecardNodeName: "scorecard:" + name
getScorecardNodeName(name) ==
    CASE name = "pkg:a@1" -> "scorecard:pkg:a@1"
      [] name = "pkg:a@2" -> "scorecard:pkg:a@2"
      [] name = "pkg:b@1" -> "scorecard:pkg:b@1"
      [] name = "pkg:" -> "scorecard:pkg:"
      [] name = "r1" -> "scorecard:r1"
      [] name = "r2" -> "scorecard:r2"
      [] OTHER -> "scorecard:"

\* json.Marshal of a ScorecardResult: success is omitted when it is false
Marshal(r) ==
    IF r.Success
    THEN [purl |-> r.PURL, success |-> TRUE, repo |-> r.Repo]
    ELSE [purl |-> r.PURL, repo |-> r.Repo]

\* json.Unmarshal into a zero ScorecardResult
Unmarshal(d) ==
    [PURL |-> d.purl,
     Success |-> IF "success" \in DOMAIN d THEN d.success ELSE FALSE,
     Repo |-> d.repo]

\* the results a LoadScorecard document holds
ResultPool == [PURL : Purls, Success : BOOLEAN, Repo : Repos]

\* storage.AddOrUpdateCustomData(type, tag, id, data)
AddOrUpdateCustomData(staged, type, tag, id, data) ==
    {e \in staged : ~(e.type = type /\ e.tag = tag /\ e.id = id)}
        \cup {[type |-> type, tag |-> tag, id |-> id, data |-> data]}

\* storage.GetCustomData(type, tag)
GetCustomData(type, tag) == {e \in ing.staged : e.type = type /\ e.tag = tag}

\* the loop of LoadScorecard over the decoded results
RECURSIVE StageAll(_, _)
StageAll(staged, results) ==
    IF results = <<>> THEN staged
    ELSE LET r == Head(results)
         IN  StageAll(IF ~r.Success THEN staged
                      ELSE AddOrUpdateCustomData(staged, ScorecardType, r.PURL,
                               getScorecardNodeName(r.Repo), Marshal(r)),
                      Tail(results))

\* LoadScorecard(storage, data) on a document that decodes to results
LoadScorecard(results) ==
    /\ ing.pc = "idle"
    /\ ing' = [ing EXCEPT !.pc = "staged", !.staged = StageAll(@, results)]
    /\ UNCHANGED <<storageVars, configVars, lbVars, prev, resp, pass, rpc, acked, ctx>>

\* Scorecards: GetAllKeys, GetNodes, count := 0
ScBegin ==
    /\ ing.pc \in {"idle", "staged"}
    /\ ing' = [ing EXCEPT !.pc = "run", !.lnodes = stNodes, !.todo = DOMAIN stNodes,
                          !.count = 0]
    /\ UNCHANGED <<storageVars, configVars, lbVars, prev, resp, pass, rpc, acked, ctx>>

\* Scorecards, outer loop: the next node of the range over nodes; a node that
\* is no library, has no pkg prefix, does not parse or has no staged data is
\* passed over
ScNode(n) ==
    /\ ing.pc = "run"
    /\ ing.entries = {}
    /\ n \in ing.todo
    /\ LET node == ing.lnodes[n]
           take == /\ node.Type = LibraryType
                   /\ HasPkgPrefix(node.Name)
                   /\ PURLToPackage(node.Name).ok
       IN  ing' = [ing EXCEPT !.todo = @ \ {n},
                              !.cur = IF take THEN n ELSE 0,
                              !.entries = IF take
                                          THEN GetCustomData(ScorecardType, node.Name)
                                          ELSE {}]
    /\ UNCHANGED <<storageVars, configVars, lbVars, prev, resp, pass, rpc, acked, ctx>>

\* variant: the version of the result is not compared
QualifiesAnyVersion(scorecardResult, scorecardPurl, purl) ==
    scorecardResult.Success /\ scorecardPurl.ok

\* the result is successful, its PURL parses and has the node's version
Qualifies(scorecardResult, scorecardPurl, purl) ==
    /\ scorecardResult.Success
    /\ scorecardPurl.ok
    /\ scorecardPurl.Version = purl.Version

\* Scorecards, inner loop: one staged entry of the current node; for a result
\* that qualifies graph.AddNode, node.SetDependency, count++ and progress
ScEntry(e) ==
    /\ ing.pc = "run"
    /\ e \in ing.entries
    /\ LET node == ing.lnodes[ing.cur]
           purl == PURLToPackage(node.Name)
           scorecardResult == Unmarshal(e.data)
           scorecardPurl == PURLToPackage(scorecardResult.PURL)
           name == getScorecardNodeName(scorecardResult.PURL)
           id == Cardinality(DOMAIN stNodes) + 1
           from == [node EXCEPT !.Children = @ \cup {id}]
       IN  IF ~Qualifies(scorecardResult, scorecardPurl, purl)
           THEN /\ ing' = [ing EXCEPT !.entries = @ \ {e}]
                /\ UNCHANGED storageVars
           ELSE IF NameResolves(name)
           THEN /\ ing' = [ing EXCEPT !.pc = "done", !.entries = {},
                                      !.err = "AlreadyExists"]
                /\ UNCHANGED storageVars
           ELSE /\ stNodes' = [m \in DOMAIN stNodes \cup {id} |->
                                 IF m = id
                                 THEN [ID |-> id, Name |-> name, Type |-> ScorecardType,
                                       Children |-> {}, Parents |-> {node.ID}]
                                 ELSE IF m = node.ID THEN from ELSE stNodes[m]]
                /\ stDirty' = stDirty \cup {id} \cup MarkedDirty(node.ID, id)
                /\ ing' = [ing EXCEPT !.lnodes[ing.cur] = from,
                                      !.entries = @ \ {e},
                                      !.count = @ + 1,
                                      !.calls = Append(@, [count |-> ing.count + 1,
                                                          id |-> scorecardPurl.Name])]
                /\ UNCHANGED stCaches
    /\ UNCHANGED <<configVars, lbVars, prev, resp, pass, rpc, acked, ctx>>

\* Scorecards: the range over nodes is exhausted, return nil
ScEnd ==
    /\ ing.pc = "run"
    /\ ing.entries = {}
    /\ ing.todo = {}
    /\ ing' = [ing EXCEPT !.pc = "done", !.cur = 0]
    /\ UNCHANGED <<storageVars, configVars, lbVars, prev, resp, pass, rpc, acked, ctx>>

\* the graph the ingest runs on: libraries a@1 -> a@2 and an application b@1
IngestEdges == {<<1, 2>>}

IngestNodes ==
    <<[ID |-> 1, Name |-> "pkg:a@1", Type |-> LibraryType,
       Children |-> {2}, Parents |-> {}],
      [ID |-> 2, Name |-> "pkg:a@2", Type |-> LibraryType,
       Children |-> {}, Parents |-> {1}],
      [ID |-> 3, Name |-> "pkg:b@1", Type |-> "application",
       Children |-> {}, Parents |-> {}]>>

\* custom data other writers of the storage have staged: a result of another
\* version under a@1, an unsuccessful result under a@1, a result under b@1
PreStaged ==
    { [type |-> ScorecardType, tag |-> "pkg:a@1", id |-> "scorecard:r1",
       data |-> Marshal([PURL |-> "pkg:a@2", Success |-> TRUE, Repo |-> "r1"])],
      [type |-> ScorecardType, tag |-> "pkg:a@1", id |-> "scorecard:r2",
       data |-> Marshal([PURL |-> "pkg:a@1", Success |-> FALSE, Repo |-> "r2"])],
      [type |-> ScorecardType, tag |-> "pkg:b@1", id |-> "scorecard:r1",
       data |-> Marshal([PURL |-> "pkg:b@1", Success |-> TRUE, Repo |-> "r1"])] }

InitIngest ==
    /\ stNodes = IngestNodes
    /\ stCaches = <<>>
    /\ stDirty = DOMAIN IngestNodes
    /\ K = 1
    /\ script = [op |-> "dependencies", name |-> "A"]
    /\ failing = {}
    /\ HandlerStart
    /\ prev = NoResult
    /\ resp = NoResponse
    /\ pass = NoPass
    /\ rpc = [c \in 1..MaxClients |-> NoRpc]
    /\ acked = {}
    /\ ctx = "live"
    /\ \E pre \in SUBSET PreStaged : ing = [NoIngest EXCEPT !.staged = pre]

NextIngest ==
    \/ \E n \in 1..MaxResults : \E results \in [1..n -> ResultPool] :
          LoadScorecard(results)
    \/ ScBegin
    \/ \E n \in ing.todo : ScNode(n)
    \/ \E e \in ing.entries : ScEntry(e)
    \/ ScEnd

SpecIngest == InitIngest /\ [][NextIngest]_vars

\* ------------------------------------------------ claims on CustomLeaderboard
\* the focus nodes of the call whose evaluation returns an error
FailedFocus ==
    {i \in DOMAIN wstate :
        /\ nodes[i].Name # ""
        /\ ParseAndExecute(script, nodes[i].Name, nodes, caches, CachedFlag(cacheStack)).err # ""}

Card(q) == Cardinality(q.Output)

EntryNames(qs) == [i \in 1..Len(qs) |-> qs[i].Node.Name]

\* C1: when the evaluation of the script fails for at least one named focus
\* node, the call returns an error and never a success response.
C1_ErrorSurfaced ==
    (hpc = "done" /\ FailedFocus # {}) => ~result.ok

\* C2: among entries of equal cardinality the entries are in ascending name
\* order; on the diamond with 'dependencies * focus' the order is A, B, C, D.
C2_TiesAscendingByName ==
    (hpc = "done" /\ result.ok) =>
        /\ \A i, j \in 1..Len(result.queries) :
              (i < j /\ Card(result.queries[i]) = Card(result.queries[j]))
                 => NameRank(result.queries[i].Node.Name)
                      < NameRank(result.queries[j].Node.Name)
        /\ (stNodes = Diamond.nodes /\ script.op = "dependencies" /\ failing = {})
              => EntryNames(result.queries) = <<"A", "B", "C", "D">>

\* C3: in every successful response consecutive entries are in non-increasing
\* order of output cardinality.
C3_DescendingCardinality ==
    (hpc = "done" /\ result.ok) =>
        \A i \in 1..(Len(result.queries) - 1) :
            Card(result.queries[i]) >= Card(result.queries[i + 1])

\* a response of at least three entries with a strict decrease and a tie
C3_Witness ==
    /\ hpc = "done"
    /\ result.ok
    /\ Len(result.queries) >= 3
    /\ \E i \in 1..(Len(result.queries) - 1) :
          Card(result.queries[i]) > Card(result.queries[i + 1])
    /\ \E i \in 1..(Len(result.queries) - 1) :
          Card(result.queries[i]) = Card(result.queries[i + 1])

\* C4: two successful runs on the same graph, caches and script return the
\* same sequence of entries, whatever the order the workers deliver in.
C4_SameSequence ==
    (hpc = "done" /\ result.ok /\ prev.ok) => result.queries = prev.queries

\* C5: a successful response holds exactly one entry for each stored node
\* with a non-empty name and none for a node with an empty name.
C5_OneEntryPerNamedNode ==
    (hpc = "done" /\ result.ok) =>
        \A n \in DOMAIN stNodes :
            Cardinality({i \in 1..Len(result.queries) : result.queries[i].Node.ID = n})
                = IF stNodes[n].Name # "" THEN 1 ELSE 0

\* the workers started that have not yet released their semaphore token
InFlight == {i \in DOMAIN wstate : wstate[i] \in {"running", "sent"}}

\* C6: with K >= 1 the number of evaluations in flight is at most K.
C6_AtMostKInFlight ==
    K >= 1 => Cardinality(InFlight) <= K

\* K evaluations in flight while a further named node waits for a token
C6_Witness ==
    /\ K >= 1
    /\ Cardinality(InFlight) = K
    /\ hpc = "loop"
    /\ idx <= Len(nodes)
    /\ nodes[idx].Name # ""

\* the handler waits at semaphore <- struct{}{} and no worker holds a token
\* that it could release
StuckAtAcquire ==
    /\ hpc = "loop"
    /\ idx <= Len(nodes)
    /\ nodes[idx].Name # ""
    /\ ~CanAcquire
    /\ InFlight = {}

\* C7: with K = 0 the call returns, with InvalidArgument, and starts no
\* evaluation: it is never stuck at the semaphore.
C7_ZeroConcurrencyRejected ==
    K = 0 =>
        /\ ~StuckAtAcquire
        /\ \A i \in DOMAIN wstate : wstate[i] = "idle"
        /\ hpc = "done" => (~result.ok /\ result.err \in {"InvalidArgument", "NotCached"})

\* C8: when the dirty set read at the start of the call is non-empty, the call
\* fails as not cached, having loaded no node or cache and started no worker.
C8_NotCachedBeforeLoad ==
    (hpc # "start" /\ uncachedNodes # {}) =>
        /\ hpc = "done"
        /\ ~result.ok
        /\ result.err = "NotCached"
        /\ keys = <<>> /\ nodes = <<>> /\ caches = <<>>
        /\ wstate = <<>> /\ wg = 0 /\ semaphore = 0
        /\ cpc = "idle"

\* a call on a storage with nodes to be cached has returned
C8_Witness ==
    /\ hpc = "done"
    /\ uncachedNodes # {}
    /\ uncachedNodes = stDirty
    /\ DOMAIN stNodes # {}
    /\ result.err = "NotCached"

ChainNames == <<"A", "B", "C">>
ChainEdges == {<<1, 2>>, <<2, 3>>}

C10_CleanCachesAgree ==
    stDirty = {} =>
        \A n \in DOMAIN stNodes :
            /\ n \in DOMAIN stCaches
            /\ stCaches[n] = ClosureCache(stNodes, n)

\* ------------------------------------------------------- claims on graph.Cache
\* reference closure: m is reached from n by a path of 1..k Children edges
RECURSIVE PathWithin(_, _, _)
PathWithin(n, m, k) ==
    /\ k > 0
    /\ \/ m \in stNodes[n].Children
       \/ \E x \in stNodes[n].Children : PathWithin(x, m, k - 1)

RefAllChildren(n) ==
    {m \in DOMAIN stNodes : PathWithin(n, m, Cardinality(DOMAIN stNodes))}

RefAllParents(n) ==
    {m \in DOMAIN stNodes : PathWithin(m, n, Cardinality(DOMAIN stNodes))}

\* the latest operation is a Cache that has returned: the graph is quiescent
CacheReturned == resp.op = "Cache" /\ pass.pc = "idle"

\* C11: when Cache has returned on a quiescent graph, every node n has a cache
\* entry whose AllChildren is exactly the set reachable from n by one or more
\* Children edges and whose AllParents is exactly the set that reaches n.
C11_CacheIsReferenceClosure ==
    CacheReturned =>
        \A n \in DOMAIN stNodes :
            /\ n \in DOMAIN stCaches
            /\ stCaches[n].AllChildren = RefAllChildren(n)
            /\ stCaches[n].AllParents = RefAllParents(n)

\* C12: when Cache has returned with no write interleaved the dirty set is
\* empty, and a Cache that follows a Cache directly changes no cache entry and
\* leaves the dirty set empty.
C12_CacheEmptiesDirtySet ==
    /\ [](CacheReturned => ToBeCached = {})
    /\ [][(CacheReturned /\ resp'.op = "Cache") =>
            (stCaches' = stCaches /\ stDirty' = {})]_vars

\* Cache has returned on a graph with an edge, every node cached
C12_Witness ==
    /\ CacheReturned
    /\ Edges # {}
    /\ DOMAIN stCaches = DOMAIN stNodes
    /\ stDirty = {}

\* C13: when Cache has returned on a quiescent graph, b is in AllChildren(a)
\* exactly when a is in AllParents(b), for all nodes a and b.
C13_ClosuresSymmetric ==
    CacheReturned =>
        \A a, b \in DOMAIN stNodes :
            /\ a \in DOMAIN stCaches
            /\ b \in DOMAIN stCaches
            /\ (b \in stCaches[a].AllChildren <=> a \in stCaches[b].AllParents)

\* n lies on a directed cycle
OnCycle(n) == n \in RefAllChildren(n)

\* a and b are in one strongly-connected component
SameScc(a, b) == a = b \/ (b \in RefAllChildren(a) /\ a \in RefAllChildren(b))

\* C14: when Cache has returned, n is in AllChildren(n) exactly when n lies on
\* a directed cycle, the members of one strongly-connected component have the
\* same AllChildren and the same AllParents, and the two nodes of a two-cycle
\* both have both nodes in AllChildren.
C14_CyclesCached ==
    CacheReturned =>
        /\ \A n \in DOMAIN stNodes :
              /\ n \in DOMAIN stCaches
              /\ (n \in stCaches[n].AllChildren <=> OnCycle(n))
        /\ \A a, b \in DOMAIN stNodes :
              SameScc(a, b) => stCaches[a] = stCaches[b]
        /\ \A a, b \in DOMAIN stNodes :
              (a # b /\ b \in stNodes[a].Children /\ a \in stNodes[b].Children) =>
                  ({a, b} \subseteq stCaches[a].AllChildren /\
                   {a, b} \subseteq stCaches[b].AllChildren)

\* Cache has returned on a graph where A and B form a two-cycle that the edge
\* C->A leads into
C14_Witness ==
    /\ CacheReturned
    /\ stNodes = MakeNodes(ChainNames, {<<1, 2>>, <<2, 1>>, <<3, 1>>})
    /\ stDirty = {}

\* C15: when a SetDependency added an edge while a Cache pass was in progress,
\* the dirty set is non-empty when that pass ends.
C15_DirtyMarkSurvivesPass ==
    (pass.pc = "idle" /\ resp.op = "Cache" /\ pass.wrote) => stDirty # {}

\* ------------------------------------------------------ claims on graph writes
\* C17: a SetDependency that succeeds on an edge that exists already, as the
\* second of two equal calls does, leaves Children, Parents, the caches and the
\* dirty set as they were; after a completed Cache the dirty set stays empty.
C17_SetDependencyIdempotent ==
    [][(resp'.op = "SetDependency" /\ resp'.err = "" /\ Edges' = Edges) =>
          (stNodes' = stNodes /\ stCaches' = stCaches /\ stDirty' = stDirty)]_vars

\* SetDependency has succeeded while every node is cached and clean: the edge
\* existed before the last Cache
C17_Witness ==
    /\ resp.op = "SetDependency"
    /\ resp.err = ""
    /\ Edges # {}
    /\ DOMAIN stCaches = DOMAIN stNodes
    /\ stDirty = {}

\* C18: SetDependency(x, x) fails with SelfLoop and leaves Children, Parents,
\* the caches and the dirty set unchanged: no node ever is its own child or
\* parent.
C18_SelfLoopRejected ==
    /\ [](\A n \in DOMAIN stNodes :
            n \notin stNodes[n].Children /\ n \notin stNodes[n].Parents)
    /\ [][resp'.err = "SelfLoop" =>
            (stNodes' = stNodes /\ stCaches' = stCaches /\ stDirty' = stDirty)]_vars

\* SetDependency(x, x) was refused on a cached graph with an edge
C18_Witness ==
    /\ resp.op = "SetDependency"
    /\ resp.err = "SelfLoop"
    /\ Edges # {}
    /\ DOMAIN stCaches = DOMAIN stNodes

C16_EdgesSymmetricAndKept ==
    InProgress("SetDependency") = {} =>
        /\ \A a, b \in DOMAIN stNodes :
              b \in stNodes[a].Children <=> a \in stNodes[b].Parents
        /\ \A e \in acked :
              e[2] \in stNodes[e[1]].Children /\ e[1] \in stNodes[e[2]].Parents

\* C19: node names are unique over the extant nodes, also after AddNode calls
\* with the same name ran concurrently.
C19_NamesUnique ==
    \A n, m \in DOMAIN stNodes : stNodes[n].Name = stNodes[m].Name => n = m

\* ------------------------------------- claims on the goroutines of the call
\* C21: a CustomLeaderboard call whose ctx was cancelled while evaluations were
\* outstanding returns the cancellation error and no result list.
C21_CancelledCallReturnsError ==
    (hpc = "done" /\ ctx = "cancelled") =>
        (~result.ok /\ result.err = "Cancelled" /\ result.queries = <<>>)

\* the workers that were started and have not ended
Unfinished == {i \in DOMAIN wstate : wstate[i] \in {"running", "sent", "released"}}

\* C25: while a worker has not ended no channel is closed, so no send happens
\* on a closed channel; no send finds a full buffer; the closer closes each of
\* queryChan, errChan and the semaphore once, after every worker has released
\* its token and is done; and with K >= 1 the handler returns and every
\* goroutine of the call ends, also after an early return with an error.
C25_GoroutinesEnd ==
    /\ [](Unfinished # {} => (closedChans = {} /\ cpc \in {"idle", "wait"}))
    /\ [](/\ Len(queryChan) <= Len(nodes)
          /\ Len(errChan) <= Len(nodes)
          /\ semaphore <= K)
    /\ [](cpc \in {"closeQuery", "closeErr", "closeSem", "done"} =>
            (semaphore = 0 /\ wg = 0 /\ Unfinished = {}))
    /\ [][cpc' \in {"closeErr", "closeSem", "done"} /\ cpc' # cpc =>
            Cardinality(closedChans') = Cardinality(closedChans) + 1]_vars
    /\ [](cpc = "done" => closedChans = {"queryChan", "errChan", "semaphore"})
    /\ (K >= 1 => <>[]CallOver)

\* the handler has returned early with an evaluation error while a worker of
\* the call is still running
C25_Witness ==
    /\ K >= 1
    /\ hpc = "done"
    /\ result.err = "EvalError"
    /\ Outstanding # {}

\* ------------------------- claims on calls that overlap writes of other clients
\* the entries the call has produced so far
Produced ==
    {queryChan[i] : i \in DOMAIN queryChan} \cup {h[i] : i \in DOMAIN h}
        \cup {result.queries[i] : i \in DOMAIN result.queries}

C26_LoadedCachesMatchLoadedNodes ==
    (hpc \in {"loop", "select"} /\ CachedFlag(cacheStack)) =>
        \A i \in DOMAIN nodes :
            /\ nodes[i].ID \in DOMAIN caches
            /\ caches[nodes[i].ID] =
                  ClosureCache([n \in DOMAIN nodes |-> nodes[n]], nodes[i].ID)

\* ---------------------------------------------- claims on the scorecard ingest
\* the staged data holds a successful result under the library's name whose
\* version is the library's and whose scorecard node name is that of sc
Justified(lib, sc) ==
    /\ stNodes[lib].Type = LibraryType
    /\ \E e \in ing.staged :
          /\ e.type = ScorecardType
          /\ e.tag = stNodes[lib].Name
          /\ LET r == Unmarshal(e.data)
             IN  /\ r.Success
                 /\ PURLToPackage(r.PURL).ok
                 /\ PURLToPackage(r.PURL).Version =
                        PURLToPackage(stNodes[lib].Name).Version
                 /\ stNodes[sc].Name = getScorecardNodeName(r.PURL)

\* C24: every scorecard node and every edge Scorecards has created is that of
\* a library node and a successful result staged under the library's name
\* with the library's version; the edges that existed stay; and the progress
\* callback has received the counts 1, 2, 3, ... one for each edge created.
C24_ScorecardsIngest ==
    /\ \A sc \in DOMAIN stNodes :
          stNodes[sc].Type = ScorecardType =>
              \E lib \in DOMAIN stNodes :
                  /\ sc \in stNodes[lib].Children
                  /\ Justified(lib, sc)
    /\ \A e \in Edges \ IngestEdges :
          /\ stNodes[e[2]].Type = ScorecardType
          /\ e[1] \in stNodes[e[2]].Parents
          /\ Justified(e[1], e[2])
    /\ \A e \in IngestEdges :
          e[2] \in stNodes[e[1]].Children /\ e[1] \in stNodes[e[2]].Parents
    /\ \A i \in DOMAIN ing.calls : ing.calls[i].count = i
    /\ Len(ing.calls) = Cardinality(Edges \ IngestEdges)

\* Scorecards has returned nil after creating two scorecard nodes with their
\* edges, passing over a successful result of version 2 staged under a@1
C24_Witness ==
    /\ ing.pc = "done"
    /\ ing.err = ""
    /\ Len(ing.calls) = 2
    /\ \E e \in ing.staged :
          e.tag = "pkg:a@1" /\ Unmarshal(e.data).PURL = "pkg:a@2"

====
